---- MODULE Spec2Model ----
(***************************************************************************)
(* Model of the mjml-builder orchestration scripts: scripts/build.js       *)
(* (matrix planner, build executor, manifest writer), the hash verifier    *)
(* scripts/verify-hash.js, the packager scripts/package-binary.js and      *)
(* scripts/clean.js.                                                       *)
(*                                                                         *)
(* Node.js runs one callback at a time, so every action below is one       *)
(* synchronous stretch of the script: from an entry point or the           *)
(* completion of an awaited promise up to the next await.                  *)
(***************************************************************************)
EXTENDS Integers, Sequences, FiniteSets, TLC

VARIABLES
    config,     \* build-config.json as parsed at process start
    options,    \* the CLI options of the current build invocation
    run,        \* number of script invocations started so far (the clock)
    phase,      \* "idle" | "planned" | "building" | "exited"
    exitCode,   \* exit code of the last build process
    matrix,     \* const matrix = generateBuildMatrix()
    queue,      \* buildWithConcurrency: const queue = [...matrix]; a job
                \* object is referred to by its index in matrix
    results,    \* the results collection ({ target, result })
    workers,    \* worker() coroutines: where each one is suspended
    dirExists,  \* whether the output directory exists
    fs,         \* entries of the output directory: name -> entry
    summary,    \* the counts printed in the build summary
    taken,      \* history: job -> the workers that took it from the queue
    outcomes,   \* history: job -> what its external invocation did
    fs0,        \* history: the output directory when the invocation began
    report,     \* what the last verify / package / clean invocation did
    prevReport, \* history: the report of the verify invocation before it
    touched     \* history: the files changed by hand since the last verify

toolVars == <<report, prevReport, touched>>

vars == <<config, options, run, phase, exitCode, matrix, queue, results,
          workers, dirExists, fs, summary, taken, outcomes, fs0, report,
          prevReport, touched>>

(***************************************************************************)
(* Bounds of the model.                                                    *)
(***************************************************************************)
MaxRuns == 2
MaxConcurrency == 2
\* Invocations of any script in one behaviour of the tools specification.
MaxToolRuns == 3

Range(s) == {s[i] : i \in 1..Len(s)}

Min(a, b) == IF a <= b THEN a ELSE b

\* Sequences without repetition over the set S.
RECURSIVE Orderings(_)
Orderings(S) ==
    IF S = {} THEN {<<>>}
    ELSE UNION {{<<x>> \o t : t \in Orderings(S \ {x})} : x \in S}

\* getArgValue returns null when the flag is absent (or its value is falsy).
Null == "null"

(***************************************************************************)
(* Object.entries over a parsed JSON object.  A declaration is the         *)
(* sequence of <<key, value>> members in the order the file writes them.   *)
(* The engine lists keys that are canonical array indices first, in        *)
(* ascending numeric order, and the other keys after them in the order of  *)
(* their creation.                                                         *)
(***************************************************************************)
\* The numeric value of a key that is a canonical array index, -1 otherwise
\* (a table over the keys the model uses).
ArrayIndex(k) ==
    CASE k = "16" -> 16
      [] k = "18" -> 18
      [] k = "20" -> 20
      [] k = "24" -> 24
      [] OTHER -> -1

IsArrayIndex(k) == ArrayIndex(k) >= 0

RECURSIVE SortByIndex(_)
SortByIndex(S) ==
    IF S = {} THEN <<>>
    ELSE LET m == CHOOSE e \in S : \A o \in S : ArrayIndex(e[1]) <= ArrayIndex(o[1])
         IN  <<m>> \o SortByIndex(S \ {m})

ObjectEntriesDeclared(decl) == decl

ObjectEntries(decl) ==
    SortByIndex({decl[i] : i \in {j \in 1..Len(decl) : IsArrayIndex(decl[j][1])}})
    \o SelectSeq(decl, LAMBDA e : ~IsArrayIndex(e[1]))

(***************************************************************************)
(* scripts/build.js: the matrix planner.                                   *)
(***************************************************************************)
BinaryPrefix == "mjml"
HashAlgorithm == "sha256"

GetBinaryNameNoVersion(platformConfig, nodeVersion) ==
    BinaryPrefix \o "-" \o platformConfig.artifactName

GetBinaryName(platformConfig, nodeVersion) ==
    LET prefix == BinaryPrefix
        ext == IF "extension" \in DOMAIN platformConfig
               THEN platformConfig.extension ELSE ""
    IN  prefix \o "-" \o platformConfig.artifactName \o "-node" \o nodeVersion \o ext

VersionEligibleEnabledOnly(cfg) == cfg.enabled

VersionEligible(cfg) == cfg.enabled /\ cfg.supported

EnabledPlatforms(cfg, opts) ==
    SelectSeq(SelectSeq(ObjectEntries(cfg.platforms), LAMBDA e : e[2].enabled),
              LAMBDA e : opts.platform = Null \/ e[1] = opts.platform)

EnabledNodeVersions(cfg, opts) ==
    SelectSeq(SelectSeq(ObjectEntries(cfg.nodeVersions), LAMBDA e : VersionEligible(e[2])),
              LAMBDA e : opts.nodeVersion = Null \/ e[1] = opts.nodeVersion)

MakeTarget(p, v) ==
    [platform |-> p[1], platformConfig |-> p[2],
     nodeVersion |-> v[1], nodeConfig |-> v[2],
     target |-> v[2].pkgTarget \o "-" \o p[2].pkgTarget,
     outputName |-> GetBinaryName(p[2], v[1])]

RECURSIVE Flatten(_)
Flatten(ss) == IF ss = <<>> THEN <<>> ELSE Head(ss) \o Flatten(Tail(ss))

GenerateBuildMatrix(cfg, opts) ==
    LET ps == EnabledPlatforms(cfg, opts)
        vs == EnabledNodeVersions(cfg, opts)
    IN  Flatten([i \in 1..Len(ps) |-> [j \in 1..Len(vs) |-> MakeTarget(ps[i], vs[j])]])

(***************************************************************************)
(* The output directory.  An entry is a file with its content, or a        *)
(* subdirectory.                                                           *)
(***************************************************************************)
ManifestName == "manifest.json"

SidecarName(name) == name \o "." \o HashAlgorithm

File(data) == [kind |-> "file", data |-> data]

Subdir == [kind |-> "dir"]

WriteFile(f, name, data) ==
    [n \in DOMAIN f \cup {name} |-> IF n = name THEN File(data) ELSE f[n]]

Unlink(f, names) == [n \in DOMAIN f \ names |-> f[n]]

\* The content the external packager writes for a target in build
\* invocation t: no two invocations write the same bytes.
PkgOutput(target, t) == [target |-> target.target, build |-> t]

\* fs.statSync(path).size
SizeOf(data) == Len(data.target) + data.build

\* The hex digest of a content: a function of the content alone, taken to
\* be free of collisions.
Digest(data) == "sha:" \o data.target \o "@" \o ToString(data.build)

GenerateHash(f, name) == Digest(f[name].data)

(***************************************************************************)
(* Text of a sidecar: a sequence of pieces, each a whitespace character or *)
(* a run of other characters.                                              *)
(***************************************************************************)
IsSpace(p) == p \in {" ", "\n", "\t"}

SidecarTextNameFirst(hash, name) == <<name, " ", " ", hash, "\n">>

\* `${hash}  ${target.outputName}\n`
SidecarText(hash, name) == <<hash, " ", " ", name, "\n">>

RECURSIVE TrimLeft(_)
TrimLeft(t) == IF t # <<>> /\ IsSpace(Head(t)) THEN TrimLeft(Tail(t)) ELSE t

RECURSIVE TrimRight(_)
TrimRight(t) ==
    IF t # <<>> /\ IsSpace(t[Len(t)]) THEN TrimRight(SubSeq(t, 1, Len(t) - 1)) ELSE t

\* String.prototype.trim
Trim(t) == TrimRight(TrimLeft(t))

\* String.prototype.split(/\s+/): cur is the token being read.
RECURSIVE SplitWs(_, _)
SplitWs(t, cur) ==
    IF t = <<>> THEN <<cur>>
    ELSE IF IsSpace(Head(t)) THEN <<cur>> \o SplitWs(TrimLeft(t), "")
    ELSE SplitWs(Tail(t), cur \o Head(t))

\* hashContent.split(/\s+/)[0] of the trimmed content
ExpectedHash(text) == SplitWs(Trim(text), "")[1]

(***************************************************************************)
(* scripts/verify-hash.js: verifyFile.                                     *)
(***************************************************************************)
\* String.prototype.endsWith
EndsWith(str, suffix) ==
    /\ Len(str) >= Len(suffix)
    /\ SubSeq(str, Len(str) - Len(suffix) + 1, Len(str)) = suffix

CalculateHashOfHead(f, name) ==
    LET d == f[name].data
    IN  Digest(IF EndsWith(d.target, "!")
               THEN [d EXCEPT !.target = SubSeq(d.target, 1, Len(d.target) - 1)]
               ELSE d)

\* calculateHash(filePath, algorithm)
CalculateHash(f, name) == Digest(f[name].data)

VerifyFile(f, name) ==
    IF name \notin DOMAIN f THEN [success |-> FALSE, error |-> "Binary file not found"]
    ELSE IF SidecarName(name) \notin DOMAIN f
    THEN [success |-> FALSE, error |-> "Hash file not found"]
    ELSE LET expectedHash == ExpectedHash(f[SidecarName(name)].data)
             actualHash == CalculateHash(f, name)
         IN  [success |-> expectedHash = actualHash, expected |-> expectedHash,
              actual |-> actualHash, match |-> expectedHash = actualHash]

\* verifyFileWithHash(filePath, expectedHash)
VerifyFileWithHash(f, name, expectedHash) ==
    IF name \notin DOMAIN f THEN [success |-> FALSE, error |-> "Binary file not found"]
    ELSE LET actualHash == CalculateHash(f, name)
         IN  [success |-> expectedHash = actualHash, expected |-> expectedHash,
              actual |-> actualHash, match |-> expectedHash = actualHash]

\* The value of a property that the parsed JSON does not have.
Undefined == "undefined"

\* The filter of verifyAll and packageAll: not a hash file, a manifest or
\* an archive.
IsBinaryName(name) ==
    /\ ~EndsWith(name, "." \o HashAlgorithm)
    /\ ~EndsWith(name, ".json")
    /\ ~EndsWith(name, ".zip")

\* fs.readdirSync(outputDir).filter(...): the names in listing order
BinaryFiles(listing) == SelectSeq(listing, IsBinaryName)

\* The console lines of one artifact in verifyManifest and verifyAll.
BulkLines(name, result, verbose) ==
    IF result.success
    THEN <<<<"ok", name>>>> \o (IF verbose THEN <<<<"Hash", result.actual>>>> ELSE <<>>)
    ELSE <<<<"failed", name>>>> \o
         (IF "error" \in DOMAIN result
          THEN <<<<"Error", result.error>>>>
          ELSE <<<<"Expected", result.expected>>, <<"Actual", result.actual>>>>)

\* The console lines of main for --file with --hash.
FileHashLines(name, result) ==
    IF result.success
    THEN <<<<"Hash verified", name>>>>
    ELSE <<<<"Hash mismatch", name>>>> \o
         (IF "error" \in DOMAIN result
          THEN <<<<"Error", result.error>>>>
          ELSE <<<<"Expected", result.expected>>, <<"Actual", result.actual>>>>)

\* The console lines of main for --file alone.
FileLines(name, result) ==
    IF result.success
    THEN <<<<"Hash verified", name>>>>
    ELSE <<<<"Hash mismatch", name>>>> \o
         (IF "error" \in DOMAIN result THEN <<<<"Error", result.error>>>> ELSE <<>>)

Item(name, result, lines) == [name |-> name, result |-> result, lines |-> lines]

\* build.hash of a manifest entry
EntryHash(build) == IF "hash" \in DOMAIN build THEN build.hash ELSE Undefined

VerifyBuildsUntilFailure(f, builds, verbose) ==
    LET r(i) == VerifyFileWithHash(f, builds[i].name, EntryHash(builds[i]))
        bad == {i \in 1..Len(builds) : ~r(i).success}
        n == IF bad = {} THEN Len(builds)
             ELSE CHOOSE i \in bad : \A k \in bad : i <= k
    IN  [i \in 1..n |-> Item(builds[i].name, r(i), BulkLines(builds[i].name, r(i), verbose))]

\* The loop of verifyManifest over manifest.builds.
VerifyBuilds(f, builds, verbose) ==
    [i \in 1..Len(builds) |->
        LET result == VerifyFileWithHash(f, builds[i].name, EntryHash(builds[i]))
        IN  Item(builds[i].name, result, BulkLines(builds[i].name, result, verbose))]

\* The loop of verifyAll over the binary files.
VerifyFiles(f, files, verbose) ==
    [i \in 1..Len(files) |->
        LET result == VerifyFile(f, files[i])
        IN  Item(files[i], result, BulkLines(files[i], result, verbose))]

\* let allPassed = true; ... allPassed = false on every failed artifact
AllPassed(items) == \A i \in 1..Len(items) : items[i].result.success

VerifyReport(mode, list, items, success, note) ==
    [cmd |-> "verify", mode |-> mode, list |-> list, items |-> items,
     success |-> success, note |-> note, exit |-> IF success THEN 0 ELSE 1]

\* verifyManifest()
VerifyManifest(f, verbose) ==
    IF ManifestName \notin DOMAIN f
    THEN VerifyReport("manifest", <<>>, <<>>, FALSE, "Manifest not found")
    ELSE LET builds == f[ManifestName].data.builds
             items == VerifyBuilds(f, builds, verbose)
         IN  VerifyReport("manifest", [i \in 1..Len(builds) |-> builds[i].name],
                          items, AllPassed(items), "verified")

\* verifyAll(): listing is fs.readdirSync(outputDir)
VerifyAll(f, exists, listing, verbose) ==
    IF ~exists
    THEN VerifyReport("all", <<>>, <<>>, FALSE, "Output directory not found")
    ELSE IF BinaryFiles(listing) = <<>>
    THEN VerifyReport("all", <<>>, <<>>, TRUE, "No binary files found to verify")
    ELSE LET items == VerifyFiles(f, BinaryFiles(listing), verbose)
         IN  VerifyReport("all", BinaryFiles(listing), items, AllPassed(items), "verified")

\* main with --file and --hash
VerifyOneWithHash(f, name, hash) ==
    LET result == VerifyFileWithHash(f, name, hash)
    IN  VerifyReport("filehash", <<name>>,
                     <<Item(name, result, FileHashLines(name, result))>>,
                     result.success, "verified")

\* main with --file
VerifyOne(f, name) ==
    LET result == VerifyFile(f, name)
    IN  VerifyReport("file", <<name>>, <<Item(name, result, FileLines(name, result))>>,
                     result.success, "verified")

(***************************************************************************)
(* scripts/build.js: the build executor.                                   *)
(***************************************************************************)
\* What the external packager can do with one invocation:
\*   ok      exits 0 having written the output file
\*   nofile  exits 0 without writing the output file
\*   fail    exits non-zero without writing the output file
\*   partial exits non-zero having written the output file
PkgOutcomes == {"ok", "nofile", "fail", "partial"}

PkgWrites(out) == out \in {"ok", "partial"}

PkgExitsZero(out) == out \in {"ok", "nofile"}

\* The outcomes explored in sequences of build runs.
RunOutcomes == {"ok", "nofile", "fail"}

BuildTargetResultIgnoringExit(f, target, exitOk) ==
    IF target.outputName \notin DOMAIN f
    THEN [success |-> FALSE, error |-> "Binary not created"]
    ELSE [success |-> TRUE, outputPath |-> target.outputName,
          size |-> SizeOf(f[target.outputName].data),
          hash |-> GenerateHash(f, target.outputName)]

\* buildTarget after execAsync settles: f is the directory at that moment.
BuildTargetResult(f, target, exitOk) ==
    IF ~exitOk THEN [success |-> FALSE, error |-> "Command failed"]
    ELSE IF target.outputName \notin DOMAIN f
    THEN [success |-> FALSE, error |-> "Binary not created"]
    ELSE [success |-> TRUE, outputPath |-> target.outputName,
          size |-> SizeOf(f[target.outputName].data),
          hash |-> GenerateHash(f, target.outputName)]

\* fs.writeFileSync(hashFile, ...) of a successful build
WriteSidecar(f, target, hash) ==
    WriteFile(f, SidecarName(target.outputName), SidecarText(hash, target.outputName))

DryRunResult == [success |-> TRUE, dryRun |-> TRUE]

ShiftPeek(q) == q

\* queue.shift(): the queue after the head is removed
Shift(q) == Tail(q)

NumWorkersAll(cfg, n) == n

\* The number of jobs that can be in flight: the workers of
\* buildWithConcurrency, or the one loop of the sequential branch.
NumWorkers(cfg, n) ==
    IF cfg.build.parallel /\ n > 1 THEN Min(cfg.build.maxConcurrency, n) ELSE 1

\* One turn of the loop of worker(): where the worker is suspended after it.
WorkerTurn(q, dry) ==
    IF Len(q) > 0
    THEN [st |-> IF dry THEN "await" ELSE "exec", job |-> Head(q)]
    ELSE [st |-> "done"]

QueueAfterTurn(q) == IF Len(q) > 0 THEN Shift(q) ELSE q

TakenAfterTurn(tk, w, q) ==
    IF Len(q) > 0 THEN [tk EXCEPT ![Head(q)] = Append(@, w)] ELSE tk

\* The workers k..n each run up to their first await, one after the other.
RECURSIVE Spawn(_, _, _, _, _)
Spawn(k, n, q, tk, dry) ==
    IF k > n THEN [ws |-> <<>>, q |-> q, tk |-> tk]
    ELSE LET rest == Spawn(k + 1, n, QueueAfterTurn(q), TakenAfterTurn(tk, k, q), dry)
         IN  [ws |-> <<WorkerTurn(q, dry)>> \o rest.ws, q |-> rest.q, tk |-> rest.tk]

CleanKeepsManifest(f) == [n \in DOMAIN f \cap {ManifestName} |-> f[n]]

\* files.forEach(file => fs.unlinkSync(...)) when every entry is a file
CleanOutputDir(f) == Unlink(f, DOMAIN f)

SubdirsOf(f) == {n \in DOMAIN f : f[n].kind = "dir"}

CleanRequested(cfg, opts) == cfg.build.cleanBeforeBuild /\ ~opts.single

(***************************************************************************)
(* The manifest.                                                           *)
(***************************************************************************)
PackageVersion == "1.0.0"

\* One entry of manifest.builds for the result r of a job of the matrix m.
\* JSON.stringify leaves out the properties whose value is undefined.
ManifestEntry(m, r) ==
    IF "hash" \in DOMAIN r.result
    THEN [name |-> m[r.target].outputName, platform |-> m[r.target].platform,
          nodeVersion |-> m[r.target].nodeVersion,
          hash |-> r.result.hash, size |-> r.result.size]
    ELSE [name |-> m[r.target].outputName, platform |-> m[r.target].platform,
          nodeVersion |-> m[r.target].nodeVersion]

ManifestBuilds(m, rs) ==
    LET ok == SelectSeq(rs, LAMBDA r : r.result.success)
    IN  [i \in 1..Len(ok) |-> ManifestEntry(m, ok[i])]

\* buildTime is the time of the write, counted in build invocations.
ManifestData(m, rs, t) ==
    [version |-> PackageVersion, buildTime |-> t, builds |-> ManifestBuilds(m, rs)]

Successful(rs) == Len(SelectSeq(rs, LAMBDA r : r.result.success))

Failed(rs) == Len(SelectSeq(rs, LAMBDA r : ~r.result.success))

WriteManifestIfAbsent(f, m, rs, t) ==
    IF ManifestName \in DOMAIN f THEN f
    ELSE WriteFile(f, ManifestName, ManifestData(m, rs, t))

WriteManifest(f, m, rs, t) == WriteFile(f, ManifestName, ManifestData(m, rs, t))

\* if (successful > 0)
ManifestWanted(rs) == Successful(rs) > 0

(***************************************************************************)
(* scripts/package-binary.js.                                              *)
(***************************************************************************)
ZipNameKeepsExtension(binaryName) == binaryName \o ".zip"

\* binaryName.replace(/\.(exe)?$/, '') + '.zip'
ZipName(binaryName) ==
    (IF EndsWith(binaryName, ".exe")
     THEN SubSeq(binaryName, 1, Len(binaryName) - 4)
     ELSE IF EndsWith(binaryName, ".")
     THEN SubSeq(binaryName, 1, Len(binaryName) - 1)
     ELSE binaryName) \o ".zip"

\* What createZip can do with one binary:
\*   ok      the archive is written and the output stream closes: resolve
\*   error   the archive emits 'error': reject
\*   stream  the output stream emits 'error', which has no listener: the
\*           process dies of the uncaught exception (exit code 1)
ZipOutcomes == {"ok", "error", "stream"}

\* The archive of a binary: the binary and, if it exists, its hash file.
ZipData(f, name) ==
    [zipOf |-> name, withHash |-> SidecarName(name) \in DOMAIN f, complete |-> TRUE]

\* What fs.createWriteStream leaves when the archive was not finished.
ZipStub(name) == [zipOf |-> name, withHash |-> FALSE, complete |-> FALSE]

\* The directory after createZip(name) ended with outcome out.
CreateZip(f, name, out) ==
    WriteFile(f, ZipName(name), IF out = "ok" THEN ZipData(f, name) ELSE ZipStub(name))

\* The entry packageAll pushes to results for one file.
PackResult(name, out) ==
    IF out = "ok" THEN [file |-> name, success |-> TRUE, zip |-> ZipName(name)]
    ELSE [file |-> name, success |-> FALSE, error |-> "archive error"]

SomeSuccess(rs) == \E i \in 1..Len(rs) : rs[i].success

\* results.every(r => r.success)
EverySuccess(rs) == \A i \in 1..Len(rs) : rs[i].success

PackExit(success) == IF success THEN 0 ELSE 1

\* A package invocation: state is "running" between two awaits.
PackReport(mode, files, rs, state, success, note) ==
    [cmd |-> "package", mode |-> mode, files |-> files, results |-> rs,
     state |-> state, success |-> success, note |-> note,
     exit |-> IF state = "running" THEN -1 ELSE PackExit(success)]

(***************************************************************************)
(* scripts/clean.js.                                                       *)
(***************************************************************************)
\* A directory entry that is a directory holding `files` files.
SubdirWith(files) == [kind |-> "dir", files |-> files]

\* count of removeDir: the files under the entries of f
RemoveDirCount(f) ==
    LET Under(n) == IF f[n].kind = "file" THEN 1
                    ELSE IF "files" \in DOMAIN f[n] THEN f[n].files ELSE 0
        RECURSIVE Sum(_)
        Sum(S) == IF S = {} THEN 0
                  ELSE LET n == CHOOSE x \in S : TRUE IN Under(n) + Sum(S \ {n})
    IN  Sum(DOMAIN f)

RemoveDirKeepsHashes(f) == [n \in {x \in DOMAIN f : EndsWith(x, "." \o HashAlgorithm)} |-> f[n]]

\* removeDir(outputDir): every entry is unlinked or removed
RemoveDir(f) == Unlink(f, DOMAIN f)

CleanReport(note, force, listed, count) ==
    [cmd |-> "clean", note |-> note, force |-> force, listed |-> listed,
     count |-> count, exit |-> 0]

(***************************************************************************)
(* Configurations and options the model explores.                          *)
(***************************************************************************)
PlatformKeys == {"linux-x64", "windows-x64"}

VersionKeys == {"16", "20", "lts"}

PlatformCfg(k, en) ==
    IF k = "windows-x64"
    THEN [enabled |-> en, pkgTarget |-> "win-x64", artifactName |-> "win32-x64",
          extension |-> ".exe"]
    ELSE [enabled |-> en, pkgTarget |-> k, artifactName |-> k]

NodeCfg(k, en, sup) == [enabled |-> en, supported |-> sup, pkgTarget |-> "node" \o k]

\* Every declaration of some of the platform keys, in every order.
PlatformDecls ==
    UNION {UNION {{[i \in 1..Len(o) |-> <<o[i], PlatformCfg(o[i], en[o[i]])>>] :
                      en \in [S -> BOOLEAN]} : o \in Orderings(S)} :
           S \in SUBSET PlatformKeys}

VersionDecls ==
    UNION {UNION {{[i \in 1..Len(o) |-> <<o[i], NodeCfg(o[i], fl[o[i]][1], fl[o[i]][2])>>] :
                      fl \in [S -> BOOLEAN \X BOOLEAN]} : o \in Orderings(S)} :
           S \in SUBSET VersionKeys}

DefaultBuild == [cleanBeforeBuild |-> TRUE, parallel |-> TRUE, maxConcurrency |-> MaxConcurrency]

PlanConfigs ==
    {[platforms |-> p, nodeVersions |-> v, build |-> DefaultBuild] :
        p \in PlatformDecls, v \in VersionDecls}

PlanOptions ==
    [platform : {Null} \cup PlatformKeys \cup {"macos-arm64"},
     nodeVersion : {Null} \cup VersionKeys,
     single : {FALSE}, dryRun : {FALSE}]

BuildPlatforms ==
    <<<<"linux-x64", PlatformCfg("linux-x64", TRUE)>>,
      <<"windows-x64", PlatformCfg("windows-x64", FALSE)>>>>

\* The artifact names and extensions a config file gives its platforms;
\* nothing makes two platforms differ in them.
ArtifactNames == {"linux-x64", "x64"}

Extensions == {"", ".exe"}

NamePlatforms ==
    {<<<<"linux-x64", a>>, <<"windows-x64", b>>>> :
        a, b \in [enabled : BOOLEAN, pkgTarget : {"x64"},
                  artifactName : ArtifactNames, extension : Extensions]}

\* Two eligible versions and one that is enabled but not supported.
BuildVersions ==
    <<<<"20", NodeCfg("20", TRUE, TRUE)>>, <<"16", NodeCfg("16", TRUE, TRUE)>>,
      <<"24", NodeCfg("24", TRUE, FALSE)>>>>

\* Three eligible versions.
PoolVersions ==
    <<<<"20", NodeCfg("20", TRUE, TRUE)>>, <<"16", NodeCfg("16", TRUE, TRUE)>>,
      <<"lts", NodeCfg("lts", TRUE, TRUE)>>, <<"24", NodeCfg("24", TRUE, FALSE)>>>>

\* build.maxConcurrency is read only when build.parallel is set.
BuildSettings ==
    {b \in [cleanBeforeBuild : BOOLEAN, parallel : BOOLEAN,
            maxConcurrency : 0..MaxConcurrency] :
        b.parallel \/ b.maxConcurrency = 1}

\* The configurations the artifact names are planned from.
NameConfigs ==
    {[platforms |-> p, nodeVersions |-> v, build |-> DefaultBuild] :
        p \in NamePlatforms, v \in {BuildVersions, PoolVersions}}

\* The configurations of the sequences of build runs.
BuildConfigs ==
    {[platforms |-> BuildPlatforms, nodeVersions |-> BuildVersions, build |-> b] :
        b \in BuildSettings}

\* The configurations of the single build run of the worker pool.
PoolConfigs ==
    {[platforms |-> BuildPlatforms, nodeVersions |-> PoolVersions, build |-> b] :
        b \in BuildSettings}

\* The options of a single build run: no filter, a filter that leaves one
\* version, a filter that leaves none.
BuildOptions ==
    [platform : {Null}, nodeVersion : {Null, "20", "24"},
     single : BOOLEAN, dryRun : BOOLEAN]

\* The options explored in sequences of build runs.
RunOptions ==
    [platform : {Null}, nodeVersion : {Null, "20"},
     single : BOOLEAN, dryRun : BOOLEAN]

NoOptions == [platform |-> Null, nodeVersion |-> Null, single |-> FALSE, dryRun |-> FALSE]

StrayData == [target |-> "notes", build |-> 0]

\* The output directory before the first build: missing, or holding a
\* stray file, or a stray file and a subdirectory.
InitialDirs ==
    {<<FALSE, <<>>>>,
     <<TRUE, [n \in {"notes.txt"} |-> File(StrayData)]>>,
     <<TRUE, [n \in {"notes.txt", "sub"} |->
                 IF n = "sub" THEN Subdir ELSE File(StrayData)]>>}

\* The directories the verify, package and clean commands are tried on
\* start from these: none, two stray executables whose names differ in the
\* extension only, or a stray file and a subdirectory that holds two files.
ToolDirs ==
    {<<FALSE, <<>>>>,
     <<TRUE, [n \in {"tool", "tool.exe"} |-> File(StrayData)]>>,
     <<TRUE, [n \in {"notes.txt", "sub"} |->
                IF n = "sub" THEN SubdirWith(2) ELSE File(StrayData)]>>}

\* Both platforms enabled (one with the .exe extension), one version.
ToolPlatforms ==
    <<<<"linux-x64", PlatformCfg("linux-x64", TRUE)>>,
      <<"windows-x64", PlatformCfg("windows-x64", TRUE)>>>>

ToolVersions == <<<<"20", NodeCfg("20", TRUE, TRUE)>>>>

ToolConfigs ==
    {[platforms |-> ToolPlatforms, nodeVersions |-> ToolVersions,
      build |-> [cleanBeforeBuild |-> FALSE, parallel |-> FALSE, maxConcurrency |-> 1]]}

ToolOptions ==
    [platform : {Null}, nodeVersion : {Null}, single : {FALSE}, dryRun : BOOLEAN]

\* The names given to --file.
FileArgs == {GetBinaryName(PlatformCfg(k, TRUE), "20") : k \in PlatformKeys}

NoSummary == [kind |-> "none"]

\* No verify, package or clean invocation has run.
NoReport == [cmd |-> "none"]

(***************************************************************************)
(* Initial states.                                                         *)
(***************************************************************************)
InitCommon ==
    /\ run = 0
    /\ phase = "idle"
    /\ exitCode = 0
    /\ matrix = <<>>
    /\ queue = <<>>
    /\ results = <<>>
    /\ workers = <<>>
    /\ summary = NoSummary
    /\ taken = <<>>
    /\ outcomes = <<>>
    /\ options = NoOptions
    /\ report = NoReport
    /\ prevReport = NoReport
    /\ touched = {}

InitDir ==
    /\ \E d \in InitialDirs : dirExists = d[1] /\ fs = d[2]
    /\ fs0 = fs

Init ==
    /\ InitCommon
    /\ config \in BuildConfigs
    /\ InitDir

InitPool ==
    /\ InitCommon
    /\ config \in PoolConfigs
    /\ InitDir

(***************************************************************************)
(* Actions.                                                                *)
(***************************************************************************)
\* main() of build.js from process start to its first await (or exit).
StartRun(opts) ==
    /\ phase \in {"idle", "exited"}
    /\ run < MaxRuns
    /\ LET m == GenerateBuildMatrix(config, opts)
           n == NumWorkers(config, Len(m))
           tk0 == [j \in 1..Len(m) |-> <<>>]
           sp == Spawn(1, n, [j \in 1..Len(m) |-> j], tk0, opts.dryRun)
       IN  /\ options' = opts
           /\ run' = run + 1
           /\ matrix' = m
           /\ fs0' = fs
           /\ results' = <<>>
           /\ outcomes' = [j \in 1..Len(m) |-> [state |-> "pending"]]
           /\ \/ /\ Len(m) = 0
                 \* no build targets enabled: process.exit(1)
                 /\ phase' = "exited"
                 /\ exitCode' = 1
                 /\ summary' = [kind |-> "empty"]
                 /\ queue' = <<>>
                 /\ workers' = <<>>
                 /\ taken' = tk0
                 /\ UNCHANGED <<dirExists, fs>>
              \/ /\ Len(m) > 0
                 /\ CleanRequested(config, opts)
                 /\ SubdirsOf(fs) # {}
                 \* unlinkSync throws on a subdirectory: the entries readdir
                 \* listed before it are gone, main() rejects, process.exit(1)
                 /\ \E gone \in SUBSET (DOMAIN fs \ SubdirsOf(fs)) :
                        fs' = Unlink(fs, gone)
                 /\ dirExists' = TRUE
                 /\ phase' = "exited"
                 /\ exitCode' = 1
                 /\ summary' = [kind |-> "crash"]
                 /\ queue' = <<>>
                 /\ workers' = <<>>
                 /\ taken' = tk0
              \/ /\ Len(m) > 0
                 /\ ~(CleanRequested(config, opts) /\ SubdirsOf(fs) # {})
                 /\ dirExists' = TRUE
                 /\ fs' = IF CleanRequested(config, opts) THEN CleanOutputDir(fs) ELSE fs
                 /\ phase' = "building"
                 /\ exitCode' = 0
                 /\ summary' = NoSummary
                 /\ queue' = sp.q
                 /\ workers' = sp.ws
                 /\ taken' = sp.tk
    /\ UNCHANGED <<config, toolVars>>

\* The rest of a turn of worker() after buildTarget settled with `result`.
WorkerResumes(w, job, result) ==
    /\ results' = Append(results, [target |-> job, result |-> result])
    /\ workers' = [workers EXCEPT ![w] = WorkerTurn(queue, options.dryRun)]
    /\ queue' = QueueAfterTurn(queue)
    /\ taken' = TakenAfterTurn(taken, w, queue)

\* The external invocation of worker w ends with outcome `out`; buildTarget
\* resumes, checks and hashes the output, writes the sidecar and returns.
JobReturn(w, out) ==
    /\ phase = "building"
    /\ w \in DOMAIN workers
    /\ workers[w].st = "exec"
    /\ LET job == workers[w].job
           target == matrix[job]
           f1 == IF PkgWrites(out)
                 THEN WriteFile(fs, target.outputName, PkgOutput(target, run))
                 ELSE fs
           result == BuildTargetResult(f1, target, PkgExitsZero(out))
       IN  /\ fs' = IF result.success THEN WriteSidecar(f1, target, result.hash) ELSE f1
           /\ outcomes' = [outcomes EXCEPT ![job] =
                              [state |-> "returned", exitOk |-> PkgExitsZero(out),
                               exists |-> target.outputName \in DOMAIN f1]]
           /\ WorkerResumes(w, job, result)
    /\ UNCHANGED <<config, options, run, phase, exitCode, matrix, dirExists,
                   summary, fs0, toolVars>>

\* Dry run: buildTarget returned { success: true, dryRun: true } at once.
DryReturn(w) ==
    /\ phase = "building"
    /\ w \in DOMAIN workers
    /\ workers[w].st = "await"
    /\ LET job == workers[w].job
       IN  /\ outcomes' = [outcomes EXCEPT ![job] = [state |-> "dry"]]
           /\ WorkerResumes(w, job, DryRunResult)
    /\ UNCHANGED <<config, options, run, phase, exitCode, matrix, dirExists,
                   fs, summary, fs0, toolVars>>

\* Every worker has returned: the summary, the manifest, the exit code.
Finish ==
    /\ phase = "building"
    /\ \A w \in DOMAIN workers : workers[w].st = "done"
    /\ summary' = [kind |-> "summary", total |-> Len(results),
                   successful |-> Successful(results), failed |-> Failed(results)]
    /\ fs' = IF ManifestWanted(results) THEN WriteManifest(fs, matrix, results, run) ELSE fs
    /\ exitCode' = IF Failed(results) > 0 THEN 1 ELSE 0
    /\ phase' = "exited"
    /\ UNCHANGED <<config, options, run, matrix, queue, results, workers,
                   dirExists, taken, outcomes, fs0, toolVars>>

WorkerIds == 1..(MaxConcurrency + 2)

Next ==
    \/ \E opts \in RunOptions : StartRun(opts)
    \/ \E w \in WorkerIds, out \in RunOutcomes : JobReturn(w, out)
    \/ \E w \in WorkerIds : DryReturn(w)
    \/ Finish

Spec == Init /\ [][Next]_vars

\* One build invocation.
StartOnce(opts) == phase = "idle" /\ StartRun(opts)

NextPool ==
    \/ \E opts \in BuildOptions : StartOnce(opts)
    \/ \E w \in WorkerIds, out \in PkgOutcomes : JobReturn(w, out)
    \/ \E w \in WorkerIds : DryReturn(w)
    \/ Finish

SpecPool == InitPool /\ [][NextPool]_vars

(***************************************************************************)
(* The commands run on the output directory around one build: verify,      *)
(* package and clean, each a process of its own, and files changed or      *)
(* removed by hand in between.                                             *)
(***************************************************************************)
buildVars == <<config, options, run, phase, exitCode, matrix, queue, results,
               workers, summary, taken, outcomes>>

\* What an invocation of another script leaves alone.
toolFrame == <<config, options, phase, exitCode, matrix, queue, results,
               workers, summary, taken, outcomes>>

InitTools ==
    /\ InitCommon
    /\ config \in ToolConfigs
    /\ \E d \in ToolDirs : dirExists = d[1] /\ fs = d[2]
    /\ fs0 = fs

\* No build and no package invocation is in progress.
ToolReady ==
    /\ phase \in {"idle", "exited"}
    /\ ~(report.cmd = "package" /\ report.state = "running")

\* A behaviour runs one of the three scripts, any number of times, around
\* the build.
Runs(script) ==
    /\ ToolReady
    /\ report.cmd \in {"none", script}
    /\ run < MaxToolRuns
    /\ run' = run + 1

\* One file is changed by hand after the build, before the first
\* verification or between two.
Editable ==
    /\ phase = "exited"
    /\ report.cmd \in {"none", "verify"}
    /\ touched = {}
    /\ run < MaxToolRuns

\* The content of a binary changes.
Tamper(name) ==
    /\ Editable
    /\ name \in DOMAIN fs
    /\ fs[name].kind = "file"
    /\ IsBinaryName(name)
    /\ ~EndsWith(fs[name].data.target, "!")
    /\ fs' = WriteFile(fs, name, [fs[name].data EXCEPT !.target = @ \o "!"])
    /\ touched' = touched \cup {name}
    /\ UNCHANGED <<buildVars, dirExists, fs0, report, prevReport>>

\* A binary, a hash file or the manifest is deleted.
Remove(name) ==
    /\ Editable
    /\ name \in DOMAIN fs
    /\ fs[name].kind = "file"
    /\ fs' = Unlink(fs, {name})
    /\ touched' = touched \cup {name}
    /\ UNCHANGED <<buildVars, dirExists, fs0, report, prevReport>>

\* The elements of S in some order.
RECURSIVE SeqOf(_)
SeqOf(S) ==
    IF S = {} THEN <<>>
    ELSE LET x == CHOOSE y \in S : TRUE IN <<x>> \o SeqOf(S \ {x})

\* fs.readdirSync(outputDir): the entries in one order or in the reverse.
Listings(f) ==
    LET one == SeqOf(DOMAIN f)
    IN  {one, [i \in 1..Len(one) |-> one[Len(one) + 1 - i]]}

\* The digests given to --hash: of a binary in the directory, from a hash
\* file in the directory, or another.
HashArgs(f) ==
    {Digest(f[n].data) : n \in FileArgs \cap DOMAIN f}
    \cup {ExpectedHash(f[SidecarName(n)].data) :
             n \in {x \in FileArgs : SidecarName(x) \in DOMAIN f}}
    \cup {"sha:other"}

\* One invocation of verify-hash.js that reports r; a behaviour keeps to
\* one verification mode.
Verified(r) ==
    /\ Runs("verify")
    /\ report.cmd = "verify" => report.mode = r.mode
    \* history: when it ran, the files changed by hand since the one before
    /\ report' = [at |-> run + 1, since |-> touched] @@ r
    /\ prevReport' = IF report.cmd = "verify" THEN report ELSE NoReport
    /\ touched' = {}
    /\ fs0' = fs
    /\ UNCHANGED <<toolFrame, dirExists, fs>>

VerifyHash ==
    \/ \E name \in FileArgs, hash \in HashArgs(fs) :
          Verified(VerifyOneWithHash(fs, name, hash))
    \/ \E name \in FileArgs : Verified(VerifyOne(fs, name))
    \/ \E verbose \in BOOLEAN : Verified(VerifyManifest(fs, verbose))
    \/ \E listing \in Listings(fs) :
          Verified(VerifyAll(fs, dirExists, listing, FALSE))

\* package-binary.js up to its first await, or to its exit.
PackageStart ==
    /\ Runs("package")
    /\ \/ \E listing \in Listings(fs) :
             report' =
                IF ~dirExists
                THEN PackReport("all", <<>>, <<>>, "exited", FALSE, "Output directory not found")
                ELSE IF BinaryFiles(listing) = <<>>
                THEN PackReport("all", <<>>, <<>>, "exited", TRUE, "No binary files found to package")
                ELSE PackReport("all", BinaryFiles(listing), <<>>, "running", FALSE, "packaging")
       \/ \E name \in FileArgs :
             report' =
                IF name \notin DOMAIN fs
                THEN PackReport("file", <<name>>, <<>>, "exited", FALSE, "Binary not found")
                ELSE PackReport("file", <<name>>, <<>>, "running", FALSE, "packaging")
    /\ prevReport' = NoReport
    /\ touched' = {}
    /\ fs0' = fs
    /\ UNCHANGED <<toolFrame, dirExists, fs>>

\* createZip of the next file ends with outcome out; the loop goes on to
\* the next file or the process exits.
PackageStep(out) ==
    /\ report.cmd = "package"
    /\ report.state = "running"
    /\ LET name == report.files[Len(report.results) + 1]
           rs == Append(report.results, PackResult(name, out))
       IN  /\ \/ fs' = CreateZip(fs, name, out)
              \* the stream failed on open: no archive file at all
              \/ out = "stream" /\ fs' = fs
           /\ report' =
                IF out = "stream"
                THEN PackReport(report.mode, report.files, report.results,
                                "crashed", FALSE, "uncaught exception")
                ELSE IF Len(rs) < Len(report.files)
                THEN PackReport(report.mode, report.files, rs, "running", FALSE, "packaging")
                ELSE PackReport(report.mode, report.files, rs, "exited",
                                EverySuccess(rs), "packaged")
    /\ UNCHANGED <<buildVars, dirExists, fs0, prevReport, touched>>

\* One invocation of clean.js.
Clean(force) ==
    /\ Runs("clean")
    /\ fs0' = fs
    /\ prevReport' = NoReport
    /\ touched' = {}
    /\ LET Stamped(r) == [at |-> run + 1] @@ r
           entries == Cardinality(DOMAIN fs)
       IN  IF ~dirExists
           THEN /\ report' = Stamped(CleanReport("Output directory does not exist",
                                                 force, 0, 0))
                /\ UNCHANGED <<fs, dirExists>>
           ELSE IF DOMAIN fs = {}
           THEN /\ report' = Stamped(CleanReport("Output directory is already empty",
                                                 force, 0, 0))
                /\ UNCHANGED <<fs, dirExists>>
           ELSE IF ~force
           THEN /\ report' = Stamped(CleanReport("Use --force to confirm deletion",
                                                 force, entries, 0))
                /\ UNCHANGED <<fs, dirExists>>
           ELSE /\ report' = Stamped(CleanReport("Removed", force, entries,
                                                 RemoveDirCount(fs)))
                /\ fs' = RemoveDir(fs)
                /\ dirExists' = TRUE
    /\ UNCHANGED toolFrame

NextTools ==
    \/ \E opts \in ToolOptions : StartOnce(opts)
    \/ \E w \in WorkerIds, out \in RunOutcomes : JobReturn(w, out)
    \/ \E w \in WorkerIds : DryReturn(w)
    \/ Finish
    \/ \E name \in FileArgs : Tamper(name)
    \/ \E name \in FileArgs \cup {SidecarName(n) : n \in FileArgs} \cup {ManifestName} :
          Remove(name)
    \/ VerifyHash
    \/ PackageStart
    \/ \E out \in ZipOutcomes : PackageStep(out)
    \/ \E force \in BOOLEAN : Clean(force)

SpecTools == InitTools /\ [][NextTools]_vars

(***************************************************************************)
(* The planner alone: const matrix = generateBuildMatrix().                *)
(***************************************************************************)
InitPlan ==
    /\ run = 0
    /\ phase = "idle"
    /\ exitCode = 0
    /\ matrix = <<>>
    /\ queue = <<>>
    /\ results = <<>>
    /\ workers = <<>>
    /\ summary = NoSummary
    /\ taken = <<>>
    /\ outcomes = <<>>
    /\ config \in PlanConfigs
    /\ options \in PlanOptions
    /\ dirExists = FALSE
    /\ fs = <<>>
    /\ fs0 = fs
    /\ report = NoReport
    /\ prevReport = NoReport
    /\ touched = {}

Plan ==
    /\ phase = "idle"
    /\ matrix' = GenerateBuildMatrix(config, options)
    /\ phase' = "planned"
    /\ UNCHANGED <<config, options, run, exitCode, queue, results, workers,
                   dirExists, fs, summary, taken, outcomes, fs0, toolVars>>

NextPlan == Plan

SpecPlan == InitPlan /\ [][NextPlan]_vars

(***************************************************************************)
(* The planner on configurations that choose the artifact names.           *)
(***************************************************************************)
InitNames ==
    /\ run = 0
    /\ phase = "idle"
    /\ exitCode = 0
    /\ matrix = <<>>
    /\ queue = <<>>
    /\ results = <<>>
    /\ workers = <<>>
    /\ summary = NoSummary
    /\ taken = <<>>
    /\ outcomes = <<>>
    /\ config \in NameConfigs
    /\ options = [platform |-> Null, nodeVersion |-> Null, single |-> FALSE,
                  dryRun |-> FALSE]
    /\ dirExists = FALSE
    /\ fs = <<>>
    /\ fs0 = fs
    /\ report = NoReport
    /\ prevReport = NoReport
    /\ touched = {}

SpecNames == InitNames /\ [][NextPlan]_vars

(***************************************************************************)
(* Properties of the matrix planner.                                       *)
(***************************************************************************)
Planned == phase # "idle"

JobPairs == [i \in 1..Len(matrix) |-> <<matrix[i].platform, matrix[i].nodeVersion>>]

\* The keys of a declaration that pass the test and the filter.
EligibleKeys(decl, Test(_), filter) ==
    {decl[i][1] : i \in {j \in 1..Len(decl) :
                            Test(decl[j][2]) /\ (filter = Null \/ decl[j][1] = filter)}}

EligiblePlatformKeys ==
    EligibleKeys(config.platforms, LAMBDA c : c.enabled, options.platform)

EligibleVersionKeys ==
    EligibleKeys(config.nodeVersions, LAMBDA c : c.enabled /\ c.supported,
                 options.nodeVersion)

\* C1: the plan holds exactly one job for each pair of an enabled platform
\* that matches the platform filter and an enabled and supported version
\* that matches the version filter, and no other job; its length is the
\* product of the two counts, and no job has an unsupported version.
C1_MatrixIsProduct ==
    Planned =>
        /\ Range(JobPairs) = EligiblePlatformKeys \X EligibleVersionKeys
        /\ Len(matrix) = Cardinality(EligiblePlatformKeys) * Cardinality(EligibleVersionKeys)
        /\ \A i \in 1..Len(matrix) : matrix[i].nodeConfig.supported

\* A plan of two jobs made under a platform filter from a configuration
\* that declares an enabled, unsupported version.
C1_Witness ==
    /\ phase = "planned"
    /\ Len(matrix) = 2
    /\ options.platform # Null
    /\ options.nodeVersion = Null
    /\ \E i \in 1..Len(config.nodeVersions) :
          config.nodeVersions[i][2].enabled /\ ~config.nodeVersions[i][2].supported

\* The position of key k in a declaration.
DeclPos(decl, k) == CHOOSE i \in 1..Len(decl) : decl[i][1] = k

DeclaredBefore(decl, a, b) == DeclPos(decl, a) < DeclPos(decl, b)

\* The order of own property keys: array indices ascending, then the others
\* as declared.
KeyBefore(decl, a, b) ==
    \/ IsArrayIndex(a) /\ IsArrayIndex(b) /\ ArrayIndex(a) < ArrayIndex(b)
    \/ IsArrayIndex(a) /\ ~IsArrayIndex(b)
    \/ ~IsArrayIndex(a) /\ ~IsArrayIndex(b) /\ DeclaredBefore(decl, a, b)

\* Platforms outermost, versions within a platform, each by Before.
PlanOrdered(Before(_, _, _)) ==
    \A i, j \in 1..Len(matrix) :
        i < j =>
            IF matrix[i].platform = matrix[j].platform
            THEN Before(config.nodeVersions, matrix[i].nodeVersion, matrix[j].nodeVersion)
            ELSE Before(config.platforms, matrix[i].platform, matrix[j].platform)

\* <prefix>-<artifactName>-node<version><extension> of the two platforms
ExpectedName(p, v) ==
    IF p = "windows-x64" THEN "mjml-win32-x64-node" \o v \o ".exe"
    ELSE "mjml-linux-x64-node" \o v

NamesAsSpecified ==
    \A i \in 1..Len(matrix) :
        matrix[i].outputName = ExpectedName(matrix[i].platform, matrix[i].nodeVersion)

\* C2 as stated: the jobs are in the configuration's declared order,
\* platforms in the order the config declares them and, within a platform,
\* versions in the order the config declares them, each with its output name.
C2_DeclaredOrder == Planned => PlanOrdered(DeclaredBefore) /\ NamesAsSpecified

\* C2 as amended: the jobs are in the order Object.entries lists the
\* configuration's keys: ids that are canonical array indices ("16", "20")
\* in ascending numeric order first, the other ids after them in declared
\* order; platforms outermost, versions within a platform; each job with
\* its output name <prefix>-<artifactName>-node<version><extension>.
C2_KeyOrder == Planned => PlanOrdered(KeyBefore) /\ NamesAsSpecified

\* Versions declared "20" then "16", both planned for a platform: the job
\* of "16" comes first.
C2_Witness ==
    /\ phase = "planned"
    /\ \E a, b \in 1..Len(config.nodeVersions) :
          /\ a < b
          /\ config.nodeVersions[a][1] = "20"
          /\ config.nodeVersions[b][1] = "16"
    /\ \E i, j \in 1..Len(matrix) :
          /\ i < j
          /\ matrix[i].platform = matrix[j].platform
          /\ matrix[i].nodeVersion = "16"
          /\ matrix[j].nodeVersion = "20"

(***************************************************************************)
(* Properties of one build run.                                            *)
(***************************************************************************)
Jobs == 1..Len(matrix)

\* The run ended with the build summary (not an empty plan, not a crash).
Summarised == phase = "exited" /\ summary.kind = "summary"

\* Jobs whose external invocation failed or left no output file.
BrokenJobs ==
    {j \in Jobs : /\ outcomes[j].state = "returned"
                  /\ ~(outcomes[j].exitOk /\ outcomes[j].exists)}

\* Jobs whose invocation exited with 0 and left its output file, and jobs
\* of a dry run.
SoundJobs ==
    {j \in Jobs : \/ outcomes[j].state = "dry"
                  \/ /\ outcomes[j].state = "returned"
                     /\ outcomes[j].exitOk /\ outcomes[j].exists}

ResultsOf(j) == {i \in 1..Len(results) : results[i].target = j}

\* C3: a job whose invocation fails or whose output is missing gets a failed
\* result of its own and every other job gets the result of its own
\* invocation; once a job has failed, the run still executes every job; the
\* summary counts as failed exactly the jobs that failed and as successful
\* exactly the jobs that succeeded.
C3_FailureIsLocal ==
    /\ \A i \in 1..Len(results) :
          results[i].result.success <=> results[i].target \in SoundJobs
    /\ Summarised =>
          /\ summary.failed = Cardinality(BrokenJobs)
          /\ summary.successful = Cardinality(SoundJobs)
          /\ BrokenJobs # {} => \A j \in Jobs : ResultsOf(j) # {}
          /\ exitCode = IF BrokenJobs = {} THEN 0 ELSE 1

\* A run of three jobs whose first result is a failure (the invocation
\* wrote the file and then exited non-zero) and whose other two succeeded.
C3_Witness ==
    /\ Summarised
    /\ Len(matrix) = 3
    /\ summary.failed = 1
    /\ summary.successful = 2
    /\ ~results[1].result.success
    /\ outcomes[results[1].target].exists
    /\ results[3].result.success

\* Workers inside their external invocation.
InFlight == {w \in DOMAIN workers : workers[w].st = "exec"}

\* C4 as stated: with parallel execution enabled, limit K and N > K jobs, at
\* most K jobs are inside their external invocation at a time; with parallel
\* execution disabled, at most one.
C4_AtMostK ==
    /\ (config.build.parallel /\ Len(matrix) > config.build.maxConcurrency) =>
          Cardinality(InFlight) <= config.build.maxConcurrency
    /\ ~config.build.parallel => Cardinality(InFlight) <= 1

\* C4 as amended: with parallel execution enabled, a limit K of at least 1
\* and N > K jobs, at most K jobs are inside their external invocation at a
\* time; with parallel execution disabled, or with a plan of one job, at
\* most one. No two workers are inside the invocation of the same job.
C4_AtMostKPositive ==
    /\ (/\ config.build.parallel
        /\ config.build.maxConcurrency >= 1
        /\ Len(matrix) > config.build.maxConcurrency) =>
          Cardinality(InFlight) <= config.build.maxConcurrency
    /\ (~config.build.parallel \/ Len(matrix) = 1) => Cardinality(InFlight) <= 1
    /\ \A v, w \in InFlight : workers[v].job = workers[w].job => v = w

\* Three jobs under a limit of two: two in flight, the third still queued.
C4_Witness ==
    /\ config.build.parallel
    /\ config.build.maxConcurrency = 2
    /\ Len(matrix) = 3
    /\ Cardinality(InFlight) = 2
    /\ Len(queue) = 1

\* Workers suspended in buildTarget.
Busy == {w \in DOMAIN workers : workers[w].st # "done"}

\* C5: under every interleaving of the workers, a job still in the queue
\* has been taken by nobody and a job no longer in it has been taken by one
\* worker once; the taker either is executing it or has pushed its one
\* result; no job ever has two results; and when the workers are done every
\* planned job has exactly one result.
C5_TakenOnce ==
    (phase = "building" \/ Summarised) =>
        /\ \A j \in Jobs :
              /\ Len(taken[j]) <= 1
              /\ Cardinality(ResultsOf(j)) <= 1
              /\ (j \in Range(queue)) <=> (taken[j] = <<>>)
              /\ taken[j] # <<>> =>
                    LET w == taken[j][1]
                    IN  (w \in Busy /\ workers[w].job = j) <=> ResultsOf(j) = {}
              /\ ResultsOf(j) # {} => taken[j] # <<>>
        /\ \A w \in Busy : taken[workers[w].job] = <<w>>
        /\ (workers # <<>> /\ Busy = {}) =>
              \A j \in Jobs : Cardinality(ResultsOf(j)) = 1

\* Two workers drained a queue of three jobs: one of them took two jobs,
\* and the results arrived out of plan order.
C5_Witness ==
    /\ Summarised
    /\ Len(workers) = 2
    /\ Len(matrix) = 3
    /\ Len(results) = 3
    /\ \E i, j \in Jobs : i # j /\ taken[i] = taken[j]
    /\ results[1].target # 1

(***************************************************************************)
(* Properties of sequences of build runs on one output directory.          *)
(* fs0 is the directory as the current run found it.                       *)
(***************************************************************************)
\* C6: a dry run reports a synthetic success for every planned job and
\* leaves the output directory as it found it: the same files with the same
\* content after the run as before it.
C6_DryRunTouchesNothing ==
    options.dryRun =>
        /\ \A i \in 1..Len(results) : results[i].result = DryRunResult
        /\ phase = "exited" => fs = fs0

\* Some worker has taken a job of this run.
JobStarted == \E j \in Jobs : taken[j] # <<>>

\* No entry the run found in the directory is still there: a name it found
\* is absent or names a file written since.
FoundEntriesGone == \A n \in DOMAIN fs0 : n \notin DOMAIN fs \/ fs[n] # fs0[n]

\* C7 as stated: whenever build.cleanBeforeBuild is true, every entry the
\* run found in the output directory has been removed by the time the first
\* job starts.
C7_CleanWhenConfigured ==
    (config.build.cleanBeforeBuild /\ JobStarted) => FoundEntriesGone

\* C7 as amended: when build.cleanBeforeBuild is true and --single is not
\* given, no job of a run starts before every entry the run found in the
\* output directory has been removed: while the first jobs are in flight the
\* directory is empty, and later it holds only what the run wrote.  A run
\* that cannot remove an entry (a subdirectory) ends with exit code 1
\* before any job starts.  With --single the directory is not cleaned.
C7_CleanUnlessSingle ==
    /\ (CleanRequested(config, options) /\ JobStarted) =>
          /\ FoundEntriesGone
          /\ results = <<>> => fs = <<>>
    /\ (phase = "exited" /\ summary.kind = "crash") =>
          /\ ~JobStarted
          /\ exitCode = 1
          /\ CleanRequested(config, options)
    /\ (options.single /\ phase = "building" /\ results = <<>>) => fs = fs0

\* A run without --single found files in the directory, cleaned it and has
\* its first job in flight.
C7_Witness ==
    /\ config.build.cleanBeforeBuild
    /\ ~options.single
    /\ ~options.dryRun
    /\ DOMAIN fs0 # {}
    /\ phase = "building"
    /\ InFlight # {}
    /\ results = <<>>

HasManifest(f) == ManifestName \in DOMAIN f

\* The manifest in the directory was written by the current run.
ManifestOfThisRun == HasManifest(fs) /\ fs[ManifestName].data.buildTime = run

SucceededJobs == {j \in Jobs : \E i \in ResultsOf(j) : results[i].result.success}

\* The entries of the manifest in the directory that name job j.
EntriesOf(j) ==
    LET b == fs[ManifestName].data.builds
    IN  {k \in 1..Len(b) : b[k].name = matrix[j].outputName}

\* Entry e records the name, platform, version, digest and size of the
\* artifact of job j as it is in the directory.
EntryDescribes(e, j) ==
    /\ e.name = matrix[j].outputName
    /\ e.platform = matrix[j].platform
    /\ e.nodeVersion = matrix[j].nodeVersion
    /\ matrix[j].outputName \in DOMAIN fs
    /\ "hash" \in DOMAIN e
    /\ e.hash = Digest(fs[matrix[j].outputName].data)
    /\ "size" \in DOMAIN e
    /\ e.size = SizeOf(fs[matrix[j].outputName].data)

ManifestMatchesRun ==
    /\ ManifestOfThisRun <=> SucceededJobs # {}
    /\ ManifestOfThisRun =>
          /\ Len(fs[ManifestName].data.builds) = Cardinality(SucceededJobs)
          /\ \A j \in Jobs :
                IF j \in SucceededJobs
                THEN /\ Cardinality(EntriesOf(j)) = 1
                     /\ \A k \in EntriesOf(j) :
                           EntryDescribes(fs[ManifestName].data.builds[k], j)
                ELSE EntriesOf(j) = {}

\* C8: a run writes the manifest if and only if at least one of its jobs
\* succeeded, and the manifest it writes has exactly one entry for each
\* successful job, with the name, platform, version, digest and byte size of
\* that job's artifact, and no entry for a failed job.
C8_ManifestOfSuccesses == Summarised => ManifestMatchesRun

\* C9 as stated: once a run has completed, the manifest in the output
\* directory holds no entry recorded by an earlier run.
C9_NoEarlierManifest ==
    (phase = "exited" /\ run >= 1 /\ HasManifest(fs)) =>
        fs[ManifestName].data.buildTime = run

\* C9 as amended: a run that ends with at least one successful job replaces
\* the whole manifest: the manifest then lists that run's successful jobs,
\* one entry each in result order, and nothing of an earlier manifest.  A
\* run with no successful job writes no manifest, and the manifest of an
\* earlier run stays unless the run cleaned the directory.
C9_ManifestReplaced ==
    Summarised =>
        /\ summary.successful > 0 =>
              /\ ManifestOfThisRun
              /\ fs[ManifestName].data = ManifestData(matrix, results, run)
              /\ Len(fs[ManifestName].data.builds) = summary.successful
              /\ \A k \in 1..Len(fs[ManifestName].data.builds) :
                    \E j \in SucceededJobs :
                        fs[ManifestName].data.builds[k].name = matrix[j].outputName
        /\ summary.successful = 0 =>
              /\ HasManifest(fs) <=> (HasManifest(fs0) /\ ~CleanRequested(config, options))
              /\ HasManifest(fs) => fs[ManifestName] = fs0[ManifestName]

\* A second run found the manifest of the first and replaced it.
C9_Witness ==
    /\ Summarised
    /\ run = 2
    /\ HasManifest(fs0)
    /\ ~CleanRequested(config, options)
    /\ summary.successful > 0
    /\ fs[ManifestName] # fs0[ManifestName]

\* C10: for every job that built successfully, the first whitespace-separated
\* token of its sidecar is the digest of the artifact and the digest in the
\* job's result, and verifying the artifact against the sidecar passes.
C10_SidecarRoundTrip ==
    \A i \in 1..Len(results) :
        (results[i].result.success /\ ~options.dryRun) =>
            LET name == matrix[results[i].target].outputName
                v == VerifyFile(fs, name)
            IN  /\ SidecarName(name) \in DOMAIN fs
                /\ ExpectedHash(fs[SidecarName(name)].data) = Digest(fs[name].data)
                /\ ExpectedHash(fs[SidecarName(name)].data) = results[i].result.hash
                /\ v.success
                /\ v.match

\* A second run rebuilt an artifact over the artifact and sidecar the first
\* run left, and the new sidecar verifies.
C10_Witness ==
    /\ run = 2
    /\ ~options.dryRun
    /\ \E i \in 1..Len(results) :
          LET name == matrix[results[i].target].outputName
          IN  /\ results[i].result.success
              /\ SidecarName(name) \in DOMAIN fs0
              /\ fs[SidecarName(name)] # fs0[SidecarName(name)]
              /\ VerifyFile(fs, name).match

(***************************************************************************)
(* Properties of the verifier.  fs0 is the directory the last invocation   *)
(* read.                                                                   *)
(***************************************************************************)
IsVerify(r) == r.cmd = "verify"

\* The digest item i of a verification is compared with: the first token of
\* the hash file, the hash of the manifest entry, or the digest given.
ExpectedOf(r, f, i) ==
    IF r.mode \in {"file", "all"} THEN ExpectedHash(f[SidecarName(r.list[i])].data)
    ELSE IF r.mode = "manifest" THEN EntryHash(f[ManifestName].data.builds[i])
    ELSE r.items[i].result.expected

\* What is the matter with artifact i of the list of verification r, which
\* read directory f.
Finding(r, f, i) ==
    IF r.list[i] \notin DOMAIN f THEN "missing artifact"
    ELSE IF r.mode \in {"file", "all"} /\ SidecarName(r.list[i]) \notin DOMAIN f
    THEN "missing sidecar"
    ELSE IF ExpectedOf(r, f, i) = Digest(f[r.list[i]].data) THEN "pass"
    ELSE "mismatch"

\* The lines of an item that give a reason.
ReasonLines(item) ==
    {item.lines[k] : k \in {x \in 1..Len(item.lines) :
                              item.lines[x][1] \in {"Error", "Expected", "Actual"}}}

ReasonFits(r, f, i) ==
    LET kind == Finding(r, f, i)
    IN  /\ r.items[i].result.success <=> kind = "pass"
        /\ kind = "pass" => ReasonLines(r.items[i]) = {}
        /\ kind = "missing artifact" =>
              ReasonLines(r.items[i]) = {<<"Error", "Binary file not found">>}
        /\ kind = "missing sidecar" =>
              ReasonLines(r.items[i]) = {<<"Error", "Hash file not found">>}
        /\ kind = "mismatch" =>
              ReasonLines(r.items[i]) =
                 {<<"Expected", ExpectedOf(r, f, i)>>,
                  <<"Actual", Digest(f[r.list[i]].data)>>}

\* C11: in every verification mode a missing artifact is reported as
\* "Binary file not found", a missing hash file as "Hash file not found" and
\* a digest mismatch with the expected and the actual digest, and no
\* failure is reported with the reason of another kind.
C11_DistinctReasons ==
    IsVerify(report) => \A i \in 1..Len(report.items) : ReasonFits(report, fs0, i)

\* A bulk verification that found its list: the manifest, or the directory
\* with a binary in it.
IsBulk(r) == IsVerify(r) /\ r.mode \in {"manifest", "all"} /\ r.note = "verified"

\* The artifacts a bulk verification of directory f has to check.
ListFits(r, f) ==
    IF r.mode = "manifest"
    THEN /\ ManifestName \in DOMAIN f
         /\ r.list = [i \in 1..Len(f[ManifestName].data.builds) |->
                         f[ManifestName].data.builds[i].name]
    ELSE /\ Range(r.list) = {n \in DOMAIN f : IsBinaryName(n)}
         /\ Len(r.list) = Cardinality(Range(r.list))

\* C12: a bulk verification (manifest mode or directory mode) checks and
\* reports every artifact of its list, also after an earlier one failed,
\* and its overall result is true exactly when every artifact of the list
\* passed.
C12_NoEarlyExit ==
    IsBulk(report) =>
        /\ ListFits(report, fs0)
        /\ Len(report.items) = Len(report.list)
        /\ \A i \in 1..Len(report.list) :
              /\ report.items[i].name = report.list[i]
              /\ report.items[i].lines # <<>>
              /\ report.items[i].lines[1][2] = report.list[i]
              /\ report.items[i].result.success <=> Finding(report, fs0, i) = "pass"
        /\ report.success <=>
              \A i \in 1..Len(report.list) : Finding(report, fs0, i) = "pass"

\* A manifest verification whose first artifact failed and whose second
\* was still checked and passed.
C12_Witness ==
    /\ IsBulk(report)
    /\ report.mode = "manifest"
    /\ Len(report.items) = 2
    /\ ~report.items[1].result.success
    /\ report.items[2].result.success
    /\ ~report.success

\* The result verification r reports for the artifact `name`.
ResultFor(r, name) ==
    r.items[CHOOSE i \in 1..Len(r.items) : r.items[i].name = name].result

Checked(r) == {r.items[i].name : i \in 1..Len(r.items)}

\* Two verifications one after the other, asked the same thing.
Repeated ==
    /\ IsVerify(prevReport)
    /\ IsVerify(report)
    /\ report.at = prevReport.at + 1
    /\ report.mode = prevReport.mode
    /\ report.mode \in {"file", "filehash"} => report.list = prevReport.list
    /\ report.mode = "filehash" =>
          /\ "expected" \in DOMAIN prevReport.items[1].result
          /\ "expected" \in DOMAIN report.items[1].result
          /\ report.items[1].result.expected = prevReport.items[1].result.expected

\* The one artifact whose content was changed between the two.
Changed(name) ==
    /\ report.since = {name}
    /\ IsBinaryName(name)
    /\ name \in DOMAIN fs0

\* C13: verifying twice with nothing changed in between gives the same
\* result for every artifact and the same overall result; changing the
\* content of one artifact that passed makes its verification fail with a
\* mismatch and the overall result false, and leaves the result of every
\* other artifact as it was.
C13_IdempotentIndependent ==
    Repeated =>
        /\ report.since = {} =>
              /\ Checked(report) = Checked(prevReport)
              /\ \A n \in Checked(report) : ResultFor(report, n) = ResultFor(prevReport, n)
              /\ report.success = prevReport.success
        /\ \A n \in Checked(prevReport) :
              Changed(n) =>
                 /\ Checked(report) = Checked(prevReport)
                 /\ \A m \in Checked(report) \ {n} :
                       ResultFor(report, m) = ResultFor(prevReport, m)
                 /\ ResultFor(prevReport, n).success =>
                       /\ ~ResultFor(report, n).success
                       /\ "error" \notin DOMAIN ResultFor(report, n)
                       /\ ResultFor(report, n).expected = ResultFor(prevReport, n).expected
                       /\ ResultFor(report, n).actual # ResultFor(prevReport, n).actual
                       /\ ~report.success

\* Two manifest verifications of two artifacts: both passed, then one was
\* changed; it fails, the other still passes.
C13_Witness ==
    /\ Repeated
    /\ report.mode = "manifest"
    /\ prevReport.success
    /\ Len(report.items) = 2
    /\ \E n \in Checked(report) :
          /\ Changed(n)
          /\ ~ResultFor(report, n).success
          /\ \A m \in Checked(report) \ {n} : ResultFor(report, m).success

\* A bulk packaging invocation that is over.
PackagedAll(r) ==
    /\ r.cmd = "package"
    /\ r.mode = "all"
    /\ r.state # "running"
    /\ r.files # <<>>

\* C14: when bulk packaging is over, every artifact of the list has its own
\* recorded result, a success or a failure, whatever happened to the
\* artifacts before it, and the overall result is true exactly when every
\* artifact was packaged successfully.
C14_EveryArtifactPackaged ==
    PackagedAll(report) =>
        /\ Len(report.results) = Len(report.files)
        /\ \A i \in 1..Len(report.files) :
              report.results[i].file = report.files[i]
        /\ report.success <=>
              \A i \in 1..Len(report.files) : report.results[i].success

\* A packaging invocation that ran to its end with every step a success.
PackagedWell(r) ==
    /\ r.cmd = "package"
    /\ r.state = "exited"
    /\ r.files # <<>>
    /\ Len(r.results) = Len(r.files)
    /\ \A i \in 1..Len(r.files) : r.results[i].success

\* The artifact name without a trailing ".exe" or a trailing ".".
Stem(name) ==
    IF EndsWith(name, ".exe") THEN SubSeq(name, 1, Len(name) - 4)
    ELSE IF EndsWith(name, ".") THEN SubSeq(name, 1, Len(name) - 1)
    ELSE name

\* The archives a finished invocation reports.
ArchivesOf(r) == {r.results[i].zip : i \in 1..Len(r.files)}

\* C15 as stated: packaging n artifacts of one directory leaves n archives,
\* one for each artifact, named by the artifact without ".exe" and with
\* ".zip" appended.
C15_OneArchiveEach ==
    PackagedWell(report) =>
        /\ \A i \in 1..Len(report.files) :
              report.results[i].zip = Stem(report.files[i]) \o ".zip"
        /\ Cardinality(ArchivesOf(report)) = Len(report.files)
        /\ \A i \in 1..Len(report.files) :
              /\ report.results[i].zip \in DOMAIN fs
              /\ fs[report.results[i].zip].data.zipOf = report.files[i]

\* C15, amended: the archive of every artifact is named by the artifact
\* without a trailing ".exe" (or ".") and with ".zip" appended; when no two
\* artifacts of the list differ in that ending only, n artifacts leave n
\* archives, each holding its own artifact.
C15_ArchivePerArtifact ==
    PackagedWell(report) =>
        /\ \A i \in 1..Len(report.files) :
              /\ report.results[i].zip = Stem(report.files[i]) \o ".zip"
              /\ report.results[i].zip \in DOMAIN fs
        /\ (\A i, j \in 1..Len(report.files) :
                Stem(report.files[i]) = Stem(report.files[j]) => i = j)
           => /\ Cardinality(ArchivesOf(report)) = Len(report.files)
              /\ \A i \in 1..Len(report.files) :
                    /\ fs[report.results[i].zip].data.zipOf = report.files[i]
                    /\ fs[report.results[i].zip].data.complete

\* Two built artifacts, one of them an .exe, packaged into two archives.
C15_Witness ==
    /\ PackagedWell(report)
    /\ report.mode = "all"
    /\ Len(report.files) = 2
    /\ \E i \in 1..2 : EndsWith(report.files[i], ".exe")
    /\ Stem(report.files[1]) # Stem(report.files[2])
    /\ Cardinality(ArchivesOf(report)) = 2

\* A verification that checked at least one artifact.
VerifiedSome(r) == IsVerify(r) /\ r.items # <<>>

\* A packaging invocation that is over and came as far as packaging.
PackagedSome(r) ==
    /\ r.cmd = "package"
    /\ r.state # "running"
    /\ r.files # <<>>
    /\ r.note # "Binary not found"

\* C16: the build ends with exit code 1 when a job failed and with 0
\* otherwise; a verification ends with 0 when every artifact it checked
\* passed and with 1 when one failed; a packaging invocation ends with 0
\* when every artifact was packaged and with 1 when a step failed.
C16_ExitCodes ==
    /\ Summarised =>
          exitCode = IF \E i \in 1..Len(results) : ~results[i].result.success
                     THEN 1 ELSE 0
    /\ VerifiedSome(report) =>
          report.exit = IF \E i \in 1..Len(report.items) :
                                ~report.items[i].result.success
                        THEN 1 ELSE 0
    /\ PackagedSome(report) =>
          report.exit = IF \/ Len(report.results) < Len(report.files)
                           \/ \E i \in 1..Len(report.results) :
                                 ~report.results[i].success
                        THEN 1 ELSE 0

\* A build that ended with 1 because one of its two jobs failed, followed
\* by a packaging of what it left that ended with 0.
C16_Witness ==
    /\ Summarised
    /\ Len(results) = 2
    /\ Failed(results) = 1
    /\ exitCode = 1
    /\ PackagedWell(report)
    /\ report.mode = "all"
    /\ report.exit = 0

\* A clean invocation that found something in the output directory, and
\* nothing has run since.
Cleaned(r) ==
    /\ r.cmd = "clean"
    /\ r.at = run
    /\ r.note \in {"Use --force to confirm deletion", "Removed"}

\* Every entry of the directory is a file.
OnlyFiles(f) == \A n \in DOMAIN f : f[n].kind = "file"

\* C17: clean on an output directory that holds n files and nothing else:
\* without force it reports n and the directory is as before; with force
\* the n files are gone, n is reported as removed, and the directory still
\* exists and is empty.
C17_CleanPreviewAndForce ==
    (Cleaned(report) /\ OnlyFiles(fs0)) =>
        LET n == Cardinality(DOMAIN fs0)
        IN  /\ n > 0
            /\ dirExists
            /\ report.listed = n
            /\ ~report.force => fs = fs0 /\ report.count = 0
            /\ report.force => DOMAIN fs = {} /\ report.count = n

\* The five files of a build of two artifacts (two binaries, two hash
\* files, the manifest) removed with force.
C17_Witness ==
    /\ Cleaned(report)
    /\ OnlyFiles(fs0)
    /\ report.force
    /\ Cardinality(DOMAIN fs0) = 5
    /\ report.count = 5
    /\ DOMAIN fs = {}
    /\ dirExists

\* The files job i writes: the artifact and its hash file.
PathsOf(i) == {matrix[i].outputName, SidecarName(matrix[i].outputName)}

\* C18 as stated: in every plan no two distinct jobs have the same artifact
\* path or the same hash file path.
C18_DistinctPaths ==
    Planned =>
        \A i, j \in 1..Len(matrix) :
            i # j => /\ matrix[i].outputName # matrix[j].outputName
                     /\ SidecarName(matrix[i].outputName)
                           # SidecarName(matrix[j].outputName)

\* The config gives platforms that are planned together different artifact
\* names.
DistinctArtifactNames ==
    \A i, j \in 1..Len(matrix) :
        matrix[i].platform # matrix[j].platform =>
            matrix[i].platformConfig.artifactName
              # matrix[j].platformConfig.artifactName

\* C18, amended: when the platforms of the plan have pairwise different
\* artifact names, no two distinct jobs write a file of the same path.
C18_DistinctPathsForDistinctNames ==
    (Planned /\ DistinctArtifactNames) =>
        \A i, j \in 1..Len(matrix) : i # j => PathsOf(i) \cap PathsOf(j) = {}

\* Two platforms with different artifact names and two versions: four jobs.
C18_Witness ==
    /\ Planned
    /\ DistinctArtifactNames
    /\ Len(matrix) >= 4
    /\ \E i, j \in 1..Len(matrix) : matrix[i].platform # matrix[j].platform
    /\ \E i, j \in 1..Len(matrix) : matrix[i].nodeVersion # matrix[j].nodeVersion

\* C19 (the state a finished build phase is in): when the build phase has
\* finished, whatever the concurrency limit and whichever jobs failed, a
\* result is recorded for every planned job and no job is left in the queue.
C19_RunsToCompletion ==
    Summarised =>
        /\ queue = <<>>
        /\ \A j \in Jobs : ResultsOf(j) # {}

============================================================================
